---- MODULE Spec2Model ----
(***************************************************************************)
(* DirTree Browser: the renderer's navigation state machine                *)
(* (src/renderer/renderer.ts) on top of the main process's listDirectory   *)
(* (the subprocess client of the xls tool).                                *)
(*                                                                         *)
(* Strings that the code takes apart or builds (paths, entry names) are    *)
(* sequences of one-character strings, so that split/slice/join and the    *)
(* template literals are computed, not assumed.  historyIndex is the       *)
(* code's 0-based cursor; navigationHistory[k] of the code is              *)
(* navigationHistory[k + 1] here.                                          *)
(*                                                                         *)
(* Spec and SerialSpec take a listDirectory call as one step of the        *)
(* renderer; MainSpec follows the call through the events of its           *)
(* subprocess; SortSpec applies the display sort to listings on their own. *)
(***************************************************************************)
EXTENDS Integers, Sequences, FiniteSets, Bags, TLC

VARIABLES
    currentPath,        \* renderer.ts:26
    navigationHistory,  \* renderer.ts:27
    historyIndex,       \* renderer.ts:28
    btnBackDisabled,    \* btnBack.disabled
    container,          \* what #tree-container shows
    pathDisplay,        \* pathDisplay.textContent
    calls,              \* bag of loadDirectory activations suspended at their await
    homeRequests,       \* handlers suspended at await getHomeDirectory()
    overlap,            \* does the user act while an operation is in flight
    last,               \* history variable: the step just taken
    child,              \* part_001:54  the subprocess of the call being served
    promise,            \* part_001:51  the promise listDirectory returned for it
    spawned,            \* history variable: subprocesses spawned so far
    replied,            \* history variable: replies the renderer has resumed on
    probe               \* a function under test, its argument and its result

vars == <<currentPath, navigationHistory, historyIndex, btnBackDisabled,
          container, pathDisplay, calls, homeRequests, overlap, last,
          child, promise, spawned, replied, probe>>

\* The main process as the renderer's handlers leave it, and the probe.
side == <<child, promise, spawned, replied, probe>>

nav == <<currentPath, navigationHistory, historyIndex>>

(***************************************************************************)
(* Bounds                                                                  *)
(***************************************************************************)
MaxInFlight == 2    \* suspended operations at any one time
MaxHist == 3        \* length of navigationHistory when operations do not overlap
MaxHistOverlap == 2 \* length of navigationHistory when they do

(***************************************************************************)
(* Strings                                                                 *)
(***************************************************************************)
Root == <<"/">>
EmptyStr == <<>>
Home == <<"/", "a">>

RECURSIVE SplitFrom(_, _, _)
SplitFrom(s, i, cur) ==
    IF i > Len(s) THEN <<cur>>
    ELSE IF s[i] = "/" THEN <<cur>> \o SplitFrom(s, i + 1, <<>>)
    ELSE SplitFrom(s, i + 1, Append(cur, s[i]))

\* String.prototype.split('/')
Split(s) == SplitFrom(s, 1, <<>>)

\* Array.prototype.slice(from, to) for from >= 0, with JavaScript's clamping
\* and its reading of a negative end as counted from the end.
Slice(a, from, to) ==
    LET n == Len(a)
        e == IF to < 0 THEN (IF n + to < 0 THEN 0 ELSE n + to)
             ELSE (IF to > n THEN n ELSE to)
    IN  IF from >= e THEN <<>> ELSE SubSeq(a, from + 1, e)

RECURSIVE Join(_)
\* Array.prototype.join('/')
Join(segs) ==
    IF Len(segs) = 0 THEN <<>>
    ELSE IF Len(segs) = 1 THEN segs[1]
    ELSE segs[1] \o <<"/">> \o Join(Tail(segs))

\* ParentOf without its `|| '/'`
ParentOfNoFallback(p) == Join(Slice(Split(p), 0, -1))

\* renderer.ts:114   currentPath.split('/').slice(0, -1).join('/') || '/'
ParentOf(p) ==
    LET joined == Join(Slice(Split(p), 0, -1))
    IN  IF joined = EmptyStr THEN Root ELSE joined

\* renderer.ts:92    currentPath === '/' ? `/${name}` : `${currentPath}/${name}`
ChildPath(cur, name) ==
    IF cur = Root THEN <<"/">> \o name ELSE cur \o <<"/">> \o name

\* The paths the tool may name in its output: "/", "/a", "/a/a".
ToolPaths == {Root, ChildPath(Root, <<"a">>),
              ChildPath(ChildPath(Root, <<"a">>), <<"a">>)}

(***************************************************************************)
(* Enumeration client (main process)                                       *)
(***************************************************************************)
RawFile(n) == [name |-> n, size |-> 10, modified |-> "2024-01-01T00:00:00Z",
               is_dir |-> FALSE, is_symlink |-> FALSE, permissions |-> ""]
RawDir(n) == [name |-> n, size |-> 0, modified |-> "2024-01-01T00:00:00Z",
              is_dir |-> TRUE, is_symlink |-> FALSE, permissions |-> "rwxr-xr-x"]

\* The entry arrays the tool may print.
RawListings == { <<>>, <<RawFile(<<"b">>), RawDir(<<"a">>)>> }

\* What the tool may write to standard output: text that is no JSON, or a
\* RawCliOutput document.
NotJson == [json |-> FALSE, path |-> EmptyStr, total |-> 0, entries |-> <<>>]
RawCliOutputs ==
    {[json |-> TRUE, path |-> p, total |-> Len(es), entries |-> es] :
        p \in ToolPaths, es \in RawListings}

\* One run of the subprocess as the main process observes it: the 'error'
\* event of a failed spawn, or the exit code at 'close' and the streams
\* collected up to it.
ToolRun(spawnError, code, stdout, stderr) ==
    [spawnError |-> spawnError, code |-> code, stdout |-> stdout,
     stderr |-> stderr]
SuccessRuns == {ToolRun(FALSE, 0, out, "") : out \in RawCliOutputs}
ToolRuns ==
    {ToolRun(TRUE, -2, NotJson, "")}
    \cup {ToolRun(FALSE, 2, out, "permission denied") :
              out \in {NotJson, CHOOSE d \in RawCliOutputs : TRUE}}
    \cup {ToolRun(FALSE, 0, NotJson, "")}
    \cup SuccessRuns
\* The runs drawn while operations overlap: every success, one failure.
OverlapRuns == {ToolRun(FALSE, 2, NotJson, "permission denied")} \cup SuccessRuns

\* TransformEntry testing is_symlink before is_dir
TransformEntrySymlinkFirst(entry) ==
    [name |-> entry.name,
     type |-> IF entry.is_symlink THEN "symlink"
              ELSE IF entry.is_dir THEN "directory" ELSE "file",
     size |-> entry.size,
     modified |-> entry.modified,
     permissions |-> IF entry.permissions = "" THEN "-" ELSE entry.permissions]

\* part_001:73-79   the entry transform
TransformEntry(entry) ==
    [name |-> entry.name,
     type |-> IF entry.is_dir THEN "directory"
              ELSE IF entry.is_symlink THEN "symlink" ELSE "file",
     size |-> entry.size,
     modified |-> entry.modified,
     permissions |-> IF entry.permissions = "" THEN "-" ELSE entry.permissions]

NoListing == [path |-> EmptyStr, entries |-> <<>>]
NoError == [message |-> "", code |-> 0, text |-> "", raw |-> NotJson]

\* The error of a rejection, `${message}${code}: ${text or raw}`.
ErrorOf(message, code, text, raw) ==
    [message |-> message, code |-> code, text |-> text, raw |-> raw]

Resolved(listing) == [ok |-> TRUE, listing |-> listing, error |-> NoError]
Rejected(error) == [ok |-> FALSE, listing |-> NoListing, error |-> error]

\* OnClose parsing standard output before it looks at the exit code
OnCloseParsesFirst(code, stdout, stderr) ==
    IF stdout.json /\ "entries" \in DOMAIN stdout
    THEN Resolved([path |-> stdout.path,
                   entries |-> [i \in 1..Len(stdout.entries) |->
                                   TransformEntry(stdout.entries[i])]])
    ELSE IF code = 0
         THEN Rejected(ErrorOf("Failed to parse JSON: ", 0, "", stdout))
         ELSE Rejected(ErrorOf("xls exited with code ", code, stderr, NotJson))

\* part_001:67-91   child.on('close', ...).  JSON.parse throws on text that
\* is no JSON and rawOutput.entries.map throws on a document without
\* entries; both land in the catch of :85-87.  No other key is looked at.
OnClose(code, stdout, stderr) ==
    IF code = 0
    THEN IF stdout.json /\ "entries" \in DOMAIN stdout
         THEN Resolved([path |-> stdout.path,
                        entries |-> [i \in 1..Len(stdout.entries) |->
                                        TransformEntry(stdout.entries[i])]])
         ELSE Rejected(ErrorOf("Failed to parse JSON: ", 0, "", stdout))
    ELSE Rejected(ErrorOf("xls exited with code ", code, stderr, NotJson))

\* part_001:93-95   child.on('error', ...)
OnError(cause) == Rejected(ErrorOf("Failed to spawn xls: ", 0, cause, NotJson))

\* part_001:50-97   how the promise of listDirectory settles for a run: the
\* first of the two handlers to run settles it.
ListDirectory(run) ==
    IF run.spawnError THEN OnError("spawn ENOENT")
    ELSE OnClose(run.code, run.stdout, run.stderr)

(***************************************************************************)
(* Enumeration client, event by event                                      *)
(*                                                                         *)
(* The calls of listDirectory share no state: each has its own child,      *)
(* stdout, stderr and promise (part_001:51-65).  One call is followed at   *)
(* a time; the next one is taken up when the child of the one before has   *)
(* closed.                                                                 *)
(***************************************************************************)
MaxSpawns == 3      \* subprocesses spawned in a run followed event by event

RawEntry(n, isDir, isSymlink) ==
    [name |-> n, size |-> 10, modified |-> "2024-01-01T00:00:00Z",
     is_dir |-> isDir, is_symlink |-> isSymlink, permissions |-> ""]

\* One entry for each combination of is_dir and is_symlink.
AllKinds ==
    <<RawEntry(<<"b">>, FALSE, FALSE), RawEntry(<<"a">>, TRUE, TRUE),
      RawEntry(<<"B">>, FALSE, TRUE), RawEntry(<<"a">>, TRUE, FALSE)>>

\* Documents the tool may print: two of the shape of RawCliOutput
\* (part_001:31-35), one without its total, one without its entries.
FullDoc == [json |-> TRUE, path |-> Home, total |-> 4, entries |-> AllKinds]
EmptyDoc == [json |-> TRUE, path |-> Root, total |-> 0, entries |-> <<>>]
NoTotalDoc == [json |-> TRUE, path |-> Home, entries |-> AllKinds]
NoEntriesDoc == [json |-> TRUE, path |-> Home, total |-> 0]
Docs == {FullDoc, EmptyDoc, NoTotalDoc, NoEntriesDoc}

\* part_001:31-35   interface RawCliOutput { path; total; entries }
IsRawCliOutput(text) ==
    text.json /\ {"path", "total", "entries"} \subseteq DOMAIN text

\* Nothing written, and the first part of a document whose rest has not
\* been written: neither is JSON.
NoOutput == [json |-> FALSE]
HeadOf(doc) == [json |-> FALSE, head |-> doc]

\* A 'data' event of stdout carries a whole text, or one of the two parts
\* a document was written in.
Chunk(part, text) == [part |-> part, text |-> text]
StdoutChunks ==
    {Chunk(part, doc) : part \in {"whole", "head", "tail"}, doc \in Docs}
    \cup {Chunk("whole", NotJson)}

\* The chunks the tool can write next, given what it has written.
FollowsStdout(stdout, chunk) ==
    \/ stdout = NoOutput /\ chunk.part \in {"whole", "head"}
    \/ chunk.part = "tail" /\ stdout = HeadOf(chunk.text)

\* part_001:59-61   stdout += data.toString()
AppendStdout(stdout, chunk) ==
    IF chunk.part = "head" THEN HeadOf(chunk.text) ELSE chunk.text

StderrChunks == {"permission denied", "permission ", "denied"}
FollowsStderr(stderr, chunk) ==
    \/ stderr = "" /\ chunk \in {"permission denied", "permission "}
    \/ stderr = "permission " /\ chunk = "denied"

\* part_001:63-65   stderr += data.toString()
AppendStderr(stderr, chunk) ==
    IF stderr = "" THEN chunk ELSE "permission denied"

\* The exit codes of a process that ran, and the code of the 'close' event
\* that follows the 'error' event of a failed spawn.
ExitCodes == {0, 2}
SpawnFailedCode == -2

\* part_001:54-57   the child and the two buffers of one call
ChildOf(phase, dirPath, stdout, stderr, code) ==
    [phase |-> phase, dirPath |-> dirPath, stdout |-> stdout,
     stderr |-> stderr, code |-> code]
NoChild == ChildOf("none", EmptyStr, NoOutput, "", 0)

\* part_001:51   the promise: pending, then settled with one outcome; reply
\* says whether the renderer's await has resumed on it.
PromiseOf(state, outcome, reply) ==
    [state |-> state, outcome |-> outcome, reply |-> reply]
NoPromise == PromiseOf("none", Rejected(NoError), FALSE)
Pending == PromiseOf("pending", Rejected(NoError), FALSE)

\* Settle in which every call of resolve or reject takes effect
SettleLastWins(p, outcome) == PromiseOf("settled", outcome, FALSE)

\* resolve(...) and reject(...) of part_001:81, :86, :89 and :94: the first
\* call settles the promise, a later one does nothing.
Settle(p, outcome) ==
    IF p.state = "pending" THEN PromiseOf("settled", outcome, FALSE) ELSE p

\* A function under test: the argument drawn, the array it was handed (as
\* the function leaves it) and what it returned.
ProbeOf(fn, arg, entries, result) ==
    [fn |-> fn, arg |-> arg, entries |-> entries, result |-> result]
NoProbe == ProbeOf("none", <<>>, <<>>, <<>>)

(***************************************************************************)
(* Presentation                                                            *)
(***************************************************************************)
\* Collation of the letters used in names: the letter, then its case
\* (String.prototype.localeCompare orders lower case before upper case
\* among equal letters).
Letter(ch) == CASE ch \in {"a", "A"} -> 1
                [] ch \in {"b", "B"} -> 2
                [] OTHER -> 0
IsUpper(ch) == ch \in {"A", "B"}

RECURSIVE ComparePrimary(_, _)
ComparePrimary(x, y) ==
    IF Len(x) = 0 THEN (IF Len(y) = 0 THEN 0 ELSE -1)
    ELSE IF Len(y) = 0 THEN 1
    ELSE IF Letter(Head(x)) < Letter(Head(y)) THEN -1
    ELSE IF Letter(Head(x)) > Letter(Head(y)) THEN 1
    ELSE ComparePrimary(Tail(x), Tail(y))

RECURSIVE CompareCase(_, _)
CompareCase(x, y) ==
    IF Len(x) = 0 \/ Len(y) = 0 THEN 0
    ELSE IF IsUpper(Head(x)) = IsUpper(Head(y)) THEN CompareCase(Tail(x), Tail(y))
    ELSE IF IsUpper(Head(y)) THEN -1 ELSE 1

\* a.name.localeCompare(b.name)
LocaleCompare(x, y) ==
    IF ComparePrimary(x, y) # 0 THEN ComparePrimary(x, y) ELSE CompareCase(x, y)

\* CompareEntries without the directory tests
CompareEntriesByName(a, b) == LocaleCompare(a.name, b.name)

\* renderer.ts:74-78   the comparator
CompareEntries(a, b) ==
    IF a.type = "directory" /\ b.type # "directory" THEN -1
    ELSE IF a.type # "directory" /\ b.type = "directory" THEN 1
    ELSE LocaleCompare(a.name, b.name)

RECURSIVE InsertEntry(_, _)
InsertEntry(sorted, x) ==
    IF Len(sorted) = 0 THEN <<x>>
    ELSE IF CompareEntries(x, Head(sorted)) < 0 THEN <<x>> \o sorted
    ELSE <<Head(sorted)>> \o InsertEntry(Tail(sorted), x)

RECURSIVE SortEntries(_)
\* [...listing.entries].sort(comparator): Array.prototype.sort is stable
SortEntries(es) ==
    IF Len(es) = 0 THEN <<>>
    ELSE InsertEntry(SortEntries(SubSeq(es, 1, Len(es) - 1)), es[Len(es)])

(***************************************************************************)
(* Renderer state                                                          *)
(***************************************************************************)
\* A loadDirectory activation suspended at its await (renderer.ts:62).
Call(path, addToHistory, op, pre) ==
    [path |-> path, addToHistory |-> addToHistory, op |-> op, pre |-> pre]

\* container.innerHTML
Loading == [view |-> "loading", items |-> <<>>, error |-> NoError]
EmptyDirectory == [view |-> "empty", items |-> <<>>, error |-> NoError]
Items(sorted) == [view |-> "items", items |-> sorted, error |-> NoError]
ErrorView(err) == [view |-> "error", items |-> <<>>, error |-> err]
\* what index.html puts there before the first load
InitialView == [view |-> "initial", items |-> <<>>, error |-> NoError]

\* The step just taken: the handler (act), the operation it belongs to and,
\* for a continuation of loadDirectory, whether the listing succeeded, the
\* path the tool reported and the navigation state when the operation was
\* invoked.
Event(act, op, ok, reported, pre) ==
    [act |-> act, op |-> op, ok |-> ok, reported |-> reported, pre |-> pre]

\* The step of a continuation that was given a listing: the event of a
\* successful step with, besides the reported path, the entries reported.
Delivered(op, listing, pre) ==
    [act |-> "resolved", op |-> op, ok |-> TRUE, reported |-> listing.path,
     pre |-> pre, entries |-> listing.entries]

\* The navigation state an operation is invoked in.  It is remembered in
\* the runs in which operations do not overlap: there no other operation
\* acts between a call and its continuation, and "the values before the
\* call" are what a claim about the call compares with.
Snapshot == IF overlap THEN <<>> ELSE nav

InFlight == BagCardinality(calls) + Len(homeRequests)
Recording ==
    BagCardinality([c \in {d \in BagToSet(calls) : d.addToHistory} |-> calls[c]])
        + Len(homeRequests)

Runs == IF overlap THEN OverlapRuns ELSE ToolRuns

\* An operation may be started: the bound on suspended operations leaves
\* room for it, and when it records history the history it can lead to
\* stays within MaxHist.
CanStart(record) ==
    /\ InFlight < (IF overlap THEN MaxInFlight ELSE 1)
    /\ record => historyIndex + 2 + Recording <=
                     (IF overlap THEN MaxHistOverlap ELSE MaxHist)

HomeRequest(op, pre) == [op |-> op, pre |-> pre]

Start ==
    /\ currentPath = Root
    /\ navigationHistory = <<>>
    /\ historyIndex = -1
    /\ btnBackDisabled \in BOOLEAN      \* as index.html has it
    /\ container = InitialView
    /\ pathDisplay = EmptyStr
    /\ calls = EmptyBag
    /\ last = Event("init", "none", FALSE, EmptyStr, <<>>)
    /\ child = NoChild
    /\ promise = NoPromise
    /\ spawned = 0
    /\ replied = 0

\* renderer.ts:128-131, suspended at :129
Init ==
    /\ Start
    /\ overlap = TRUE
    /\ homeRequests = <<HomeRequest("navigate", Snapshot)>>
    /\ probe = NoProbe

InitSerial ==
    /\ Start
    /\ overlap = FALSE
    /\ homeRequests = <<HomeRequest("navigate", Snapshot)>>
    /\ probe = NoProbe

\* renderer.ts:57-62   loadDirectory up to its await
LoadDirectory(path, addToHistory, op, pre) ==
    /\ container' = Loading
    /\ pathDisplay' = path
    /\ calls' = calls (+) SetToBag({Call(path, addToHistory, op, pre)})

(***************************************************************************)
(* Renderer handlers                                                       *)
(***************************************************************************)
\* array[index]: undefined outside the array
Undefined == <<"undefined">>
ElementAt(array, index) ==
    IF index \in 0..(Len(array) - 1) THEN array[index + 1] ELSE Undefined

\* CanGoBack with >= for >
CanGoBackFromFirst(index) == index >= 0

\* renderer.ts:107
CanGoBack(index) == index > 0

\* BtnBackClick reading the history before it moves the cursor
BtnBackClickStaleIndex ==
    /\ ~btnBackDisabled
    /\ CanGoBack(historyIndex)
    /\ CanStart(FALSE)
    /\ historyIndex' = historyIndex - 1
    /\ LoadDirectory(ElementAt(navigationHistory, historyIndex), FALSE, "back",
                     Snapshot)
    /\ last' = Event("click", "back", FALSE, EmptyStr, Snapshot)
    /\ UNCHANGED <<currentPath, navigationHistory, btnBackDisabled,
                   homeRequests, overlap>>
    /\ UNCHANGED side

\* renderer.ts:106-111, the button enabled and historyIndex > 0
BtnBackClick ==
    /\ ~btnBackDisabled
    /\ CanGoBack(historyIndex)
    /\ CanStart(FALSE)
    /\ historyIndex' = historyIndex - 1
    /\ LoadDirectory(ElementAt(navigationHistory, historyIndex'), FALSE, "back",
                     Snapshot)
    /\ last' = Event("click", "back", FALSE, EmptyStr, Snapshot)
    /\ UNCHANGED <<currentPath, navigationHistory, btnBackDisabled,
                   homeRequests, overlap>>
    /\ UNCHANGED side

\* BtnBackClickNoHistory reloading the current directory
BtnBackClickNoHistoryReloads ==
    /\ ~btnBackDisabled
    /\ ~CanGoBack(historyIndex)
    /\ CanStart(FALSE)
    /\ LoadDirectory(currentPath, FALSE, "back", Snapshot)
    /\ last' = Event("noop", "back", FALSE, EmptyStr, Snapshot)
    /\ UNCHANGED <<currentPath, navigationHistory, historyIndex, btnBackDisabled,
                   homeRequests, overlap>>
    /\ UNCHANGED side

\* renderer.ts:106-111, the button enabled and historyIndex <= 0
BtnBackClickNoHistory ==
    /\ ~btnBackDisabled
    /\ ~CanGoBack(historyIndex)
    /\ last' = Event("noop", "back", FALSE, EmptyStr, Snapshot)
    /\ UNCHANGED <<currentPath, navigationHistory, historyIndex, btnBackDisabled,
                   container, pathDisplay, calls, homeRequests, overlap>>
    /\ UNCHANGED side

\* BtnUpClick without history recording
BtnUpClickNoRecord ==
    /\ CanStart(TRUE)
    /\ LoadDirectory(ParentOf(currentPath), FALSE, "up", Snapshot)
    /\ last' = Event("click", "up", FALSE, EmptyStr, Snapshot)
    /\ UNCHANGED <<currentPath, navigationHistory, historyIndex, btnBackDisabled,
                   homeRequests, overlap>>
    /\ UNCHANGED side

\* renderer.ts:113-116
BtnUpClick ==
    /\ CanStart(TRUE)
    /\ LoadDirectory(ParentOf(currentPath), TRUE, "up", Snapshot)
    /\ last' = Event("click", "up", FALSE, EmptyStr, Snapshot)
    /\ UNCHANGED <<currentPath, navigationHistory, historyIndex, btnBackDisabled,
                   homeRequests, overlap>>
    /\ UNCHANGED side

\* renderer.ts:118-119   up to the await
BtnHomeClick ==
    /\ CanStart(TRUE)
    /\ homeRequests' = Append(homeRequests, HomeRequest("navigate", Snapshot))
    /\ last' = Event("click", "home", FALSE, EmptyStr, Snapshot)
    /\ UNCHANGED <<currentPath, navigationHistory, historyIndex, btnBackDisabled,
                   container, pathDisplay, calls, overlap>>
    /\ UNCHANGED side

\* renderer.ts:120 and :130   getHomeDirectory() has answered
HomeResolved ==
    /\ homeRequests # <<>>
    /\ homeRequests' = Tail(homeRequests)
    /\ LoadDirectory(Home, TRUE, Head(homeRequests).op, Head(homeRequests).pre)
    /\ last' = Event("home", Head(homeRequests).op, FALSE, EmptyStr,
                     Head(homeRequests).pre)
    /\ UNCHANGED <<currentPath, navigationHistory, historyIndex, btnBackDisabled,
                   overlap>>
    /\ UNCHANGED side

\* renderer.ts:123-125
BtnRefreshClick ==
    /\ CanStart(FALSE)
    /\ LoadDirectory(currentPath, FALSE, "refresh", Snapshot)
    /\ last' = Event("click", "refresh", FALSE, EmptyStr, Snapshot)
    /\ UNCHANGED <<currentPath, navigationHistory, historyIndex, btnBackDisabled,
                   homeRequests, overlap>>
    /\ UNCHANGED side

\* renderer.ts:90-94   double click on the i-th item shown
DblClick(i) ==
    /\ container.view = "items"
    /\ i \in 1..Len(container.items)
    /\ container.items[i].type = "directory"
    /\ CanStart(TRUE)
    /\ LoadDirectory(ChildPath(currentPath, container.items[i].name), TRUE,
                     "navigate", Snapshot)
    /\ last' = Event("click", "navigate", FALSE, EmptyStr, Snapshot)
    /\ UNCHANGED <<currentPath, navigationHistory, historyIndex, btnBackDisabled,
                   homeRequests, overlap>>
    /\ UNCHANGED side

\* PushHistory without the slice
PushHistoryNoTruncate(history, index, path) == Append(history, path)

\* renderer.ts:67-68
PushHistory(history, index, path) == Append(Slice(history, 0, index + 1), path)

\* renderer.ts:71
BackDisabled(index) == index <= 0

\* renderer.ts:98-100 after :80-96
Render(sorted) == IF Len(sorted) = 0 THEN EmptyDirectory ELSE Items(sorted)

\* Commit taking the path asked for as the current path
CommitRequestedPath(c, listing) ==
    /\ currentPath' = c.path
    /\ pathDisplay' = currentPath'
    /\ IF c.addToHistory
       THEN /\ navigationHistory' =
                  PushHistory(navigationHistory, historyIndex, currentPath')
            /\ historyIndex' = Len(navigationHistory') - 1
       ELSE UNCHANGED <<navigationHistory, historyIndex>>
    /\ btnBackDisabled' = BackDisabled(historyIndex')
    /\ container' = Render(SortEntries(listing.entries))

\* Commit in which a call that records no history keeps the current path
CommitReplayKeepsPath(c, listing) ==
    /\ currentPath' = IF c.addToHistory THEN listing.path ELSE currentPath
    /\ pathDisplay' = currentPath'
    /\ IF c.addToHistory
       THEN /\ navigationHistory' =
                  PushHistory(navigationHistory, historyIndex, currentPath')
            /\ historyIndex' = Len(navigationHistory') - 1
       ELSE UNCHANGED <<navigationHistory, historyIndex>>
    /\ btnBackDisabled' = BackDisabled(historyIndex')
    /\ container' = Render(SortEntries(listing.entries))

\* Commit in which a call that records no history leaves the view as it is
CommitReplayKeepsView(c, listing) ==
    /\ currentPath' = listing.path
    /\ pathDisplay' = currentPath'
    /\ IF c.addToHistory
       THEN /\ navigationHistory' =
                  PushHistory(navigationHistory, historyIndex, currentPath')
            /\ historyIndex' = Len(navigationHistory') - 1
       ELSE UNCHANGED <<navigationHistory, historyIndex>>
    /\ btnBackDisabled' = BackDisabled(historyIndex')
    /\ container' = IF c.addToHistory THEN Render(SortEntries(listing.entries))
                    ELSE container

\* Commit without the test of addToHistory
CommitAlwaysRecords(c, listing) ==
    /\ currentPath' = listing.path
    /\ pathDisplay' = currentPath'
    /\ navigationHistory' =
           PushHistory(navigationHistory, historyIndex, currentPath')
    /\ historyIndex' = Len(navigationHistory') - 1
    /\ btnBackDisabled' = BackDisabled(historyIndex')
    /\ container' = Render(SortEntries(listing.entries))

\* renderer.ts:63-100   what loadDirectory does with the listing of call c
Commit(c, listing) ==
    /\ currentPath' = listing.path
    /\ pathDisplay' = currentPath'
    /\ IF c.addToHistory
       THEN /\ navigationHistory' =
                  PushHistory(navigationHistory, historyIndex, currentPath')
            /\ historyIndex' = Len(navigationHistory') - 1
       ELSE UNCHANGED <<navigationHistory, historyIndex>>
    /\ btnBackDisabled' = BackDisabled(historyIndex')
    /\ container' = Render(SortEntries(listing.entries))

\* renderer.ts:62-100   the await of the suspended call c returns a listing.
\* The subprocess run is drawn here: what the main process does between the
\* request and the reply touches no state of the renderer, so the promise
\* settling and the continuation running are one step.
AwaitResolved(c, run) ==
    /\ BagIn(c, calls)
    /\ ListDirectory(run).ok
    /\ Commit(c, ListDirectory(run).listing)
    /\ calls' = calls (-) SetToBag({c})
    /\ last' = Delivered(c.op, ListDirectory(run).listing, c.pre)
    /\ UNCHANGED <<homeRequests, overlap>>
    /\ UNCHANGED side

\* Catch taking the path asked for as the current path
CatchAdoptsPath(c, error) ==
    /\ container' = ErrorView(error)
    /\ currentPath' = c.path
    /\ UNCHANGED <<navigationHistory, historyIndex, btnBackDisabled, pathDisplay>>

\* renderer.ts:101-103   what loadDirectory does with the error of call c
Catch(c, error) ==
    /\ container' = ErrorView(error)
    /\ UNCHANGED <<currentPath, navigationHistory, historyIndex, btnBackDisabled,
                   pathDisplay>>

\* renderer.ts:62 and :101-103   the await of the suspended call c throws
AwaitRejected(c, run) ==
    /\ BagIn(c, calls)
    /\ ~ListDirectory(run).ok
    /\ Catch(c, ListDirectory(run).error)
    /\ calls' = calls (-) SetToBag({c})
    /\ last' = Event("rejected", c.op, FALSE, EmptyStr, c.pre)
    /\ UNCHANGED <<homeRequests, overlap>>
    /\ UNCHANGED side

Next ==
    \/ BtnBackClick
    \/ BtnBackClickNoHistory
    \/ BtnUpClick
    \/ BtnHomeClick
    \/ HomeResolved
    \/ BtnRefreshClick
    \/ \E i \in 1..Len(container.items) : DblClick(i)
    \/ \E c \in BagToSet(calls), run \in Runs : AwaitResolved(c, run)
    \/ \E c \in BagToSet(calls), run \in Runs : AwaitRejected(c, run)

\* Operations may overlap.
Spec == Init /\ [][Next]_vars

\* Every operation is started after the one before it has finished.
SerialSpec == InitSerial /\ [][Next]_vars

(***************************************************************************)
(* The display sort on its own                                             *)
(***************************************************************************)
MaxEntries == 3     \* entries of a listing handed to the sort

SortNames == {<<"a">>, <<"B">>, <<"b">>}

\* part_001:37-43   an entry as the renderer receives it
Shown(name, kind) ==
    [name |-> name, type |-> kind, size |-> 10,
     modified |-> "2024-01-01T00:00:00Z", permissions |-> "-"]
ShownEntries ==
    {Shown(n, k) : n \in SortNames, k \in {"directory", "symlink", "file"}}
SortInputs == UNION {[1..n -> ShownEntries] : n \in 0..MaxEntries}

\* SortedCopy sorting the array of the listing itself
SortedInPlace(entries) ==
    [entries |-> SortEntries(entries), sorted |-> SortEntries(entries)]

\* renderer.ts:74   [...listing.entries].sort(...): the spread makes a new
\* array, sort orders that array in place and returns it
SortedCopy(entries) ==
    [entries |-> entries, sorted |-> SortEntries(entries)]

SortInit ==
    /\ Start
    /\ overlap = FALSE
    /\ homeRequests = <<HomeRequest("navigate", Snapshot)>>
    /\ probe \in {ProbeOf("sort", es, es, <<>>) : es \in SortInputs}

\* renderer.ts:73-96   the listing is sorted and its items are made
RenderListing ==
    /\ probe.fn = "sort"
    /\ probe' = ProbeOf("sorted", probe.arg, SortedCopy(probe.entries).entries,
                        SortedCopy(probe.entries).sorted)
    /\ UNCHANGED <<currentPath, navigationHistory, historyIndex, btnBackDisabled,
                   container, pathDisplay, calls, homeRequests, overlap, last,
                   child, promise, spawned, replied>>

SortNext == RenderListing

\* Listings of up to MaxEntries entries, each sorted once.
SortSpec == SortInit /\ [][SortNext]_vars

(***************************************************************************)
(* A call served event by event                                            *)
(***************************************************************************)
\* part_001:118-120 and :50-54   the request of call c reaches the main
\* process, which spawns the tool
HandleListDirectory(c) ==
    /\ BagIn(c, calls)
    /\ promise.state = "none" \/ promise.reply
    /\ child.phase \in {"none", "closed"}
    /\ spawned < MaxSpawns
    /\ child' = ChildOf("running", c.path, NoOutput, "", 0)
    /\ promise' = Pending
    /\ spawned' = spawned + 1
    /\ UNCHANGED <<currentPath, navigationHistory, historyIndex, btnBackDisabled,
                   container, pathDisplay, calls, homeRequests, overlap, last,
                   replied, probe>>

\* part_001:59-61   child.stdout.on('data', ...)
StdoutData(chunk) ==
    /\ child.phase = "running"
    /\ FollowsStdout(child.stdout, chunk)
    /\ child' = [child EXCEPT !.stdout = AppendStdout(child.stdout, chunk)]
    /\ UNCHANGED <<currentPath, navigationHistory, historyIndex, btnBackDisabled,
                   container, pathDisplay, calls, homeRequests, overlap, last,
                   promise, spawned, replied, probe>>

\* part_001:63-65   child.stderr.on('data', ...)
StderrData(chunk) ==
    /\ child.phase = "running"
    /\ FollowsStderr(child.stderr, chunk)
    /\ child' = [child EXCEPT !.stderr = AppendStderr(child.stderr, chunk)]
    /\ UNCHANGED <<currentPath, navigationHistory, historyIndex, btnBackDisabled,
                   container, pathDisplay, calls, homeRequests, overlap, last,
                   promise, spawned, replied, probe>>

\* part_001:93-95   the 'error' event of a spawn that failed: no process
\* ran, nothing was written
ChildError ==
    /\ child.phase = "running"
    /\ child.stdout = NoOutput
    /\ child.stderr = ""
    /\ child' = [child EXCEPT !.phase = "failed"]
    /\ promise' = Settle(promise, OnError("spawn ENOENT"))
    /\ UNCHANGED <<currentPath, navigationHistory, historyIndex, btnBackDisabled,
                   container, pathDisplay, calls, homeRequests, overlap, last,
                   spawned, replied, probe>>

\* ChildClose without its resolve and reject
ChildCloseSilent(code) ==
    /\ \/ child.phase = "running" /\ code \in ExitCodes
       \/ child.phase = "failed" /\ code = SpawnFailedCode
    /\ child' = [child EXCEPT !.phase = "closed", !.code = code]
    /\ UNCHANGED <<currentPath, navigationHistory, historyIndex, btnBackDisabled,
                   container, pathDisplay, calls, homeRequests, overlap, last,
                   promise, spawned, replied, probe>>

\* part_001:67-91   the 'close' event: of a process that ran, with its exit
\* code, and of a failed spawn, after its 'error' event, with the negative
\* error number
ChildClose(code) ==
    /\ \/ child.phase = "running" /\ code \in ExitCodes
       \/ child.phase = "failed" /\ code = SpawnFailedCode
    /\ child' = [child EXCEPT !.phase = "closed", !.code = code]
    /\ promise' = Settle(promise, OnClose(code, child.stdout, child.stderr))
    /\ UNCHANGED <<currentPath, navigationHistory, historyIndex, btnBackDisabled,
                   container, pathDisplay, calls, homeRequests, overlap, last,
                   spawned, replied, probe>>

\* renderer.ts:62-100   the await of call c resumes with the listing the
\* promise was resolved with
ReplyResolved(c) ==
    /\ BagIn(c, calls)
    /\ promise.state = "settled"
    /\ ~promise.reply
    /\ promise.outcome.ok
    /\ Commit(c, promise.outcome.listing)
    /\ calls' = calls (-) SetToBag({c})
    /\ last' = Delivered(c.op, promise.outcome.listing, c.pre)
    /\ promise' = [promise EXCEPT !.reply = TRUE]
    /\ replied' = replied + 1
    /\ UNCHANGED <<homeRequests, overlap, child, spawned, probe>>

\* ReplyRejected leaving the call to be made again
ReplyRejectedRetries(c) ==
    /\ BagIn(c, calls)
    /\ promise.state = "settled"
    /\ ~promise.reply
    /\ ~promise.outcome.ok
    /\ Catch(c, promise.outcome.error)
    /\ last' = Event("rejected", c.op, FALSE, EmptyStr, c.pre)
    /\ promise' = [promise EXCEPT !.reply = TRUE]
    /\ replied' = replied + 1
    /\ UNCHANGED <<calls, homeRequests, overlap, child, spawned, probe>>

\* renderer.ts:62 and :101-103   the await of call c throws the error the
\* promise was rejected with
ReplyRejected(c) ==
    /\ BagIn(c, calls)
    /\ promise.state = "settled"
    /\ ~promise.reply
    /\ ~promise.outcome.ok
    /\ Catch(c, promise.outcome.error)
    /\ calls' = calls (-) SetToBag({c})
    /\ last' = Event("rejected", c.op, FALSE, EmptyStr, c.pre)
    /\ promise' = [promise EXCEPT !.reply = TRUE]
    /\ replied' = replied + 1
    /\ UNCHANGED <<homeRequests, overlap, child, spawned, probe>>

MainNext ==
    \/ BtnBackClick
    \/ BtnBackClickNoHistory
    \/ BtnUpClick
    \/ BtnHomeClick
    \/ HomeResolved
    \/ BtnRefreshClick
    \/ \E i \in 1..Len(container.items) : DblClick(i)
    \/ \E c \in BagToSet(calls) : HandleListDirectory(c)
    \/ \E chunk \in StdoutChunks : StdoutData(chunk)
    \/ \E chunk \in StderrChunks : StderrData(chunk)
    \/ ChildError
    \/ \E code \in ExitCodes \cup {SpawnFailedCode} : ChildClose(code)
    \/ \E c \in BagToSet(calls) : ReplyResolved(c)
    \/ \E c \in BagToSet(calls) : ReplyRejected(c)

\* The renderer with one operation at a time and the main process event by
\* event.
MainSpec == InitSerial /\ [][MainNext]_vars

\* The same, every spawned subprocess eventually closing.
MainFairSpec ==
    MainSpec /\ WF_vars(\E code \in ExitCodes \cup {SpawnFailedCode} : ChildClose(code))

TypeOK ==
    /\ currentPath \in ToolPaths
    /\ Len(navigationHistory) <= MaxHist
    /\ \A k \in 1..Len(navigationHistory) : navigationHistory[k] \in ToolPaths
    /\ historyIndex \in -1..(MaxHist - 1)
    /\ btnBackDisabled \in BOOLEAN
    /\ InFlight <= MaxInFlight

(***************************************************************************)
(* Claims                                                                  *)
(*                                                                         *)
(* In a run of SerialSpec last.pre is the navigation state                 *)
(* <<currentPath, navigationHistory, historyIndex>> in which the operation *)
(* of the step just taken was invoked.                                     *)
(***************************************************************************)
PrePath == last.pre[1]
PreHistory == last.pre[2]
PreIndex == last.pre[3]
RecordingOps == {"navigate", "up"}

\* C1: when goBack() is invoked with historyIndex > 0 and its replay listing
\* fails, currentPath, history and historyIndex all equal the values they
\* had before goBack() was invoked.
C1_FailedGoBackRestoresState ==
    (last.act = "rejected" /\ last.op = "back") => nav = last.pre

\* C2: after non-overlapping operations, whenever history is non-empty and
\* the most recent operation succeeded, history[historyIndex] = currentPath.
C2_CursorEntryIsCurrentPath ==
    (last.act = "resolved" /\ Len(navigationHistory) > 0)
        => ElementAt(navigationHistory, historyIndex) = currentPath

\* C3: a navigate call with history recording whose listing fails leaves
\* currentPath, history and historyIndex identical to their pre-call values.
C3_FailedNavigateLeavesState ==
    (last.act = "rejected" /\ last.op \in RecordingOps) => nav = last.pre

C3_Witness ==
    /\ last.act = "rejected"
    /\ last.op = "navigate"
    /\ Len(navigationHistory) = 2
    /\ historyIndex = 0

\* C4: in every reachable state, overlapping operations included,
\* historyIndex is -1 when history is empty and otherwise
\* 0 <= historyIndex < len(history).
C4_HistoryIndexInRange ==
    IF Len(navigationHistory) = 0
    THEN historyIndex = -1
    ELSE 0 <= historyIndex /\ historyIndex < Len(navigationHistory)

C4_Witness ==
    /\ InFlight = MaxInFlight
    /\ \E c \in BagToSet(calls) : c.op = "back"
    /\ \E c \in BagToSet(calls) : c.op = "navigate"
    /\ Len(navigationHistory) = 2
    /\ historyIndex = 0

\* C5: a successful navigate with history recording, started with the
\* cursor at index i of history h, yields history = h[0..i] followed by the
\* new authoritative path, with historyIndex at the new tail.
C5_TruncationLaw ==
    (last.act = "resolved" /\ last.op \in RecordingOps)
        => /\ navigationHistory =
                  Append(SubSeq(PreHistory, 1, PreIndex + 1), last.reported)
           /\ historyIndex = PreIndex + 1
           /\ historyIndex = Len(navigationHistory) - 1

C5_Witness ==
    /\ last.act = "resolved"
    /\ last.op = "navigate"
    /\ Len(PreHistory) = 3
    /\ PreIndex = 1
    /\ PreHistory[3] # last.reported
    /\ navigationHistory = <<PreHistory[1], PreHistory[2], last.reported>>
    /\ historyIndex = 2

C7_GoBackKeepsHistory ==
    (last.op = "back" /\ last.act \in {"click", "resolved"})
        => /\ PreIndex > 0
           /\ navigationHistory = PreHistory
           /\ historyIndex = PreIndex - 1
           /\ last.act = "click" =>
                 calls = SetToBag({Call(PreHistory[PreIndex], FALSE, "back",
                                        last.pre)})

C7_Witness ==
    /\ last.op = "back"
    /\ last.act = "resolved"
    /\ PreIndex = 2
    /\ Len(navigationHistory) = 3
    /\ PreHistory[2] # PreHistory[3]

RefreshStep == last'.op = "refresh" /\ last'.act \in {"click", "resolved", "rejected"}

\* C8: refresh() never mutates history or historyIndex, whether its listing
\* succeeds or fails and whether or not other operations are in flight; it
\* may change currentPath only, and only to the path the tool reported.
C8_RefreshFrame ==
    [][RefreshStep
          => /\ navigationHistory' = navigationHistory
             /\ historyIndex' = historyIndex
             /\ \/ currentPath' = currentPath
                \/ last'.act = "resolved" /\ currentPath' = last'.reported]_vars

C8_Witness ==
    /\ last.op = "refresh"
    /\ last.act = "resolved"
    /\ InFlight > 0
    /\ Len(navigationHistory) = 2
    /\ ElementAt(navigationHistory, historyIndex) # currentPath

\* C9: on every successful listing currentPath is set to the path the tool
\* reported in its output, not to the path requested, and when history is
\* recorded the entry appended is that same path.
C9_AdoptsReportedPath ==
    (last.act = "resolved")
        => /\ currentPath = last.reported
           /\ last.op \in RecordingOps =>
                 /\ navigationHistory[Len(navigationHistory)] = last.reported
                 /\ historyIndex = Len(navigationHistory) - 1

\* goUp from "/a/a" asked for "/a" and the tool reported "/a/a"
C9_Witness ==
    /\ last.act = "resolved"
    /\ last.op = "up"
    /\ ParentOf(PrePath) # last.reported
    /\ PrePath = last.reported
    /\ Len(PrePath) = 4

\* C10: goUp() at the root path "/" asks for "/" and leaves currentPath at
\* "/", given the tool reports the requested path as the listing path; so
\* does every further goUp().
C10_GoUpAtRoot ==
    (last.op = "up" /\ PrePath = Root)
        => /\ last.act = "click" =>
                 /\ calls = SetToBag({Call(Root, TRUE, "up", last.pre)})
                 /\ currentPath = Root
           /\ (last.act = "resolved" /\ last.reported = Root) => currentPath = Root
           /\ last.act = "rejected" => currentPath = Root

\* a second goUp() in a row at the root
C10_Witness ==
    /\ last.op = "up"
    /\ last.act = "resolved"
    /\ PrePath = Root
    /\ currentPath = Root
    /\ Len(PreHistory) = 2
    /\ PreHistory[2] = Root
    /\ PreIndex = 1
    /\ navigationHistory = <<PreHistory[1], Root, Root>>

\* C18: goUp() requests currentPath without its last '/'-delimited
\* segment ('/a/a' gives '/a', '/a' gives '/'), with history recording:
\* when it succeeds, the path reported for the parent is appended to the
\* history truncated after the cursor.
LastSlash(p) == CHOOSE k \in 1..Len(p) :
                    p[k] = "/" /\ \A m \in (k + 1)..Len(p) : p[m] # "/"
WithoutLastSegment(p) ==
    IF LastSlash(p) = 1 THEN Root ELSE SubSeq(p, 1, LastSlash(p) - 1)
C18_GoUpRequestsParent ==
    /\ (last.act = "click" /\ last.op = "up") =>
           \A c \in BagToSet(calls) :
               /\ c.path = WithoutLastSegment(PrePath)
               /\ c.addToHistory
    /\ (last.act = "resolved" /\ last.op = "up") =>
           /\ navigationHistory =
                  Append(SubSeq(PreHistory, 1, PreIndex + 1), last.reported)
           /\ historyIndex = Len(navigationHistory) - 1

C18_Witness ==
    /\ last.act = "resolved"
    /\ last.op = "up"
    /\ PrePath = <<"/", "a", "/", "a">>
    /\ PreHistory = <<Root, Home, PrePath>>
    /\ PreIndex = 1
    /\ navigationHistory = <<Root, Home, Home>>

(***************************************************************************)
(* Claims about the enumeration client (MainSpec)                          *)
(***************************************************************************)
Settled == promise.state = "settled"
ExitedWith(codes) == child.phase = "closed" /\ child.code \in codes
SpawnFailed ==
    child.phase = "failed" \/ ExitedWith({SpawnFailedCode})

\* C11: when the tool exits with code 0, standard output that is not a
\* document { path, total, entries } makes listDirectory fail with the
\* parse error carrying the raw output, and is never turned into a listing.
C11_MalformedOutputIsProtocolError ==
    (ExitedWith({0}) /\ ~IsRawCliOutput(child.stdout))
        => /\ Settled
           /\ ~promise.outcome.ok
           /\ promise.outcome.error =
                  ErrorOf("Failed to parse JSON: ", 0, "", child.stdout)

\* C12: when the subprocess exits with a nonzero code, listDirectory fails
\* with the error made of that code and of the standard error captured up
\* to the exit, whatever was written to standard output.
C12_NonzeroExitIsToolError ==
    ExitedWith(ExitCodes \ {0})
        => /\ Settled
           /\ ~promise.outcome.ok
           /\ promise.outcome.error =
                  ErrorOf("xls exited with code ", child.code, child.stderr,
                          NotJson)

C12_Witness ==
    /\ ExitedWith({2})
    /\ child.stdout = FullDoc
    /\ child.stderr = "permission denied"
    /\ Settled
    /\ ~promise.outcome.ok

\* C13: when the tool cannot be spawned, listDirectory fails with the spawn
\* error carrying the cause, also after the 'close' event that follows the
\* 'error' event of the same child.
C13_SpawnFailureIsSpawnError ==
    SpawnFailed
        => /\ Settled
           /\ ~promise.outcome.ok
           /\ promise.outcome.error =
                  ErrorOf("Failed to spawn xls: ", 0, "spawn ENOENT", NotJson)

C13_Witness ==
    /\ ExitedWith({SpawnFailedCode})
    /\ Settled
    /\ promise.outcome.error.message = "Failed to spawn xls: "
    /\ last.act = "rejected"

\* C14: one subprocess is spawned per listDirectory call, every operation
\* that acts issues one listDirectory call, and after a failure nothing is
\* spawned or called until the next operation.
Served == IF promise.state \in {"pending", "settled"} /\ ~promise.reply THEN 1 ELSE 0
C14_OneSubprocessPerCall ==
    /\ spawned = replied + Served
    /\ Served <= BagCardinality(calls)
    /\ last.act \in {"click", "home"} /\ last.op # "home"
           => BagCardinality(calls) = 1
    /\ last.act \in {"resolved", "rejected"}
           => BagCardinality(calls) = 0 /\ spawned = replied

C14_Witness ==
    /\ last.act = "rejected"
    /\ last.op = "back"
    /\ spawned = MaxSpawns
    /\ replied = MaxSpawns
    /\ child.phase = "closed"

\* C16: every raw entry is given exactly one kind: directory when is_dir,
\* whatever is_symlink; symlink when is_symlink and not is_dir; file when
\* neither; and every entry the renderer shows has one of the three.
Kinds == {"directory", "symlink", "file"}
C19_SettlesExactlyOnce ==
    /\ (promise.state = "pending") ~> Settled
    /\ [][(Settled /\ spawned' = spawned) => promise'.outcome = promise.outcome]_vars
    /\ [][(promise.reply /\ spawned' = spawned /\ child' # child)
              => (nav' = nav /\ container' = container /\ replied' = replied)]_vars

C19_Witness ==
    /\ ExitedWith({SpawnFailedCode})
    /\ promise.reply
    /\ spawned = 2
    /\ replied = 2
    /\ container.view = "error"
    /\ container.error.text = "spawn ENOENT"

(***************************************************************************)
(* Claims about overlapping operations (Spec)                              *)
(***************************************************************************)
Idle == InFlight = 0

\* C15: when navigations overlap, once no call is in flight currentPath is
\* the path reported for the successful call whose continuation ran last,
\* in whatever order the calls were issued.
C15_LastContinuationWins ==
    (Idle /\ last.act = "resolved") => currentPath = last.reported

\* A replay that ends with the cursor on the last entry: Back was clicked,
\* a recording call was issued after it and completed before it.
C15_Witness ==
    /\ Idle
    /\ last.act = "resolved"
    /\ last.op = "back"
    /\ Len(navigationHistory) = 2
    /\ historyIndex = 1
    /\ currentPath = last.reported
    /\ currentPath # navigationHistory[2]

\* C20: under overlapping operations, once no call is in flight and the
\* last call to complete succeeded, a non-empty history has currentPath at
\* historyIndex.
C20_CursorEntryAfterOverlap ==
    (Idle /\ last.act = "resolved" /\ Len(navigationHistory) > 0)
        => ElementAt(navigationHistory, historyIndex) = currentPath

(***************************************************************************)
(* Claims about the display sort (SortSpec)                                *)
(***************************************************************************)
RECURSIVE BagOfSeq(_)
BagOfSeq(seq) ==
    IF Len(seq) = 0 THEN EmptyBag
    ELSE SetToBag({Head(seq)}) (+) BagOfSeq(Tail(seq))

\* C17: the rendered sequence is a permutation of the listing's entries in
\* which every directory precedes every file and symlink and entries of
\* the same kind are in ascending name order; the entry sequence of the
\* listing itself is not reordered.
C17_DisplaySortOrder ==
    probe.fn = "sorted" =>
        /\ BagOfSeq(probe.result) = BagOfSeq(probe.arg)
        /\ \A i, j \in 1..Len(probe.result) :
               i < j =>
                  /\ probe.result[j].type = "directory"
                         => probe.result[i].type = "directory"
                  /\ probe.result[i].type = probe.result[j].type
                         => LocaleCompare(probe.result[i].name,
                                          probe.result[j].name) <= 0
        /\ probe.entries = probe.arg

C17_Witness ==
    /\ probe.fn = "sorted"
    /\ probe.arg = <<Shown(<<"a">>, "file"), Shown(<<"b">>, "directory"),
                     Shown(<<"B">>, "symlink")>>
    /\ probe.result = <<Shown(<<"b">>, "directory"), Shown(<<"a">>, "file"),
                        Shown(<<"B">>, "symlink")>>

(***************************************************************************)
(* Claims about what is shown                                              *)
(***************************************************************************)
Completed == container.view \in {"items", "empty", "error"}

\* C21: whenever no listing call is in flight and at least one call has
\* completed, the Back button is disabled exactly when historyIndex <= 0.
C21_BackDisabledWhenIdle ==
    (Idle /\ Completed) => (btnBackDisabled <=> historyIndex <= 0)

\* C22: in every reachable state, overlapping calls included, the entries
\* shown are the sorted entries of the most recent successful listing and
\* currentPath is the path that listing reported: a step that ends with
\* entries shown either is the continuation of a successful listing, which
\* shows its entries and takes its path, or leaves the view and the path
\* as they were; and a double click requests the child of currentPath
\* named by a directory shown.
Under(path, name) == (IF path = Root THEN <<>> ELSE path) \o <<"/">> \o name
C22_ShownEntriesAreCurrent ==
    [][/\ container'.view = "items" =>
            IF last'.act = "resolved"
            THEN /\ container'.items = SortEntries(last'.entries)
                 /\ currentPath' = last'.reported
            ELSE /\ container' = container
                 /\ currentPath' = currentPath
       /\ (last'.act = "click" /\ last'.op = "navigate") =>
            /\ container.view = "items"
            /\ \E i \in 1..Len(container.items) :
                   /\ container.items[i].type = "directory"
                   /\ \E c \in BagToSet(calls') :
                          /\ ~BagIn(c, calls) \/ CopiesIn(c, calls') > CopiesIn(c, calls)
                          /\ c.path = Under(currentPath, container.items[i].name)
      ]_vars

\* Entries shown, taken from a continuation that ran while another call
\* was, and still is, in flight.
C22_Witness ==
    /\ overlap
    /\ container.view = "items"
    /\ last.act = "resolved"
    /\ BagCardinality(calls) >= 1
    /\ currentPath = last.reported
    /\ container.items = SortEntries(last.entries)


====
